---- MODULE Spec2Model ----
(***************************************************************************)
(* envsubst (src/main.rs): the variable-reference scanner, the extractor   *)
(* and the substitutor, and main's composition of them.                    *)
(*                                                                         *)
(* A character is its Unicode scalar value (a natural number); a string is *)
(* a sequence of characters.  A Peekable<Chars> over a string s is the     *)
(* pair (s, i), i the number of characters already consumed: peek() reads  *)
(* s[i+1] when i < Len(s), next() also advances i by one.                  *)
(***************************************************************************)
EXTENDS Integers, Sequences, FiniteSets, TLC

VARIABLES
    caller,     \* "test": a function called directly; "main": main()
    cli,        \* the parsed command line: [variables, shell_format]
    pc,         \* the statement about to run
    input,      \* the text being scanned
    allowed,    \* allowed_vars: Option<HashSet<String>>
    env,        \* the process environment: name -> value, on the bound names
    pos,        \* characters of input consumed by the iterator `chars`
    result,     \* substitute_variables: the String built; extract_variables: the Vec returned
    vars,       \* extract_variables: the HashSet `vars`
    tokens,     \* history: one record per iteration of the scanning loop
    lookups,    \* history: the names passed to env::var, in order
    stdout      \* what main printed

vars_all == <<caller, cli, pc, input, allowed, env, pos, result, vars, tokens, lookups, stdout>>

(***************************************************************************)
(* Bounds and the sets the inputs are drawn from.                          *)
(***************************************************************************)
MaxLen == 4

DOLLAR == 36
LBRACE == 123
RBRACE == 125
NEWLINE == 10

\* '$' '{' '}' 'B' 'a' '1'
Alphabet == {DOLLAR, LBRACE, RBRACE, 66, 97, 49}

Texts == UNION {[1..k -> Alphabet] : k \in 0..MaxLen}

NameB == <<66>>
Namea == <<97>>

\* Option<T>
None == [some |-> FALSE]
Some(v) == [some |-> TRUE, val |-> v]

\* The allow-lists a direct caller passes (the tests build theirs by hand).
AllowLists == {None, Some({}), Some({NameB}), Some({<<>>, NameB})}

\* Environments: B unbound or bound to "1" or to "$a"; a unbound or bound to "1".
Envs ==
    {[n \in D |-> IF n = NameB THEN vb ELSE <<49>>] :
        D \in SUBSET {NameB, Namea},
        vb \in {<<49>>, <<DOLLAR, 97>>}}

\* The format strings given on the command line:
\* "", "$B", "${}", "${", "$a${B}", "$1"
Formats ==
    { <<>>, <<DOLLAR, 66>>, <<DOLLAR, LBRACE, RBRACE>>, <<DOLLAR, LBRACE>>,
      <<DOLLAR, 97, DOLLAR, LBRACE, 66, RBRACE>>, <<DOLLAR, 49>> }

\* main's environment: B bound to "1", a unbound.
MainEnvs == { [n \in {NameB} |-> <<49>>] }

(***************************************************************************)
(* Name validity predicates.                                               *)
(***************************************************************************)
is_ascii_alphabetic(ch) == ch \in (65..90) \cup (97..122)

is_ascii_alphanumeric(ch) == is_ascii_alphabetic(ch) \/ ch \in 48..57

is_var_start(ch) == is_ascii_alphabetic(ch) \/ ch = 95

\* Mutant: digits and underscore only.
is_var_char_digits(ch) == ch \in 48..57 \/ ch = 95

is_var_char(ch) == is_ascii_alphanumeric(ch) \/ ch = 95

(***************************************************************************)
(* The scanner.  Each returns the characters collected and the iterator's  *)
(* position afterwards.                                                    *)
(***************************************************************************)
\* Mutant: the delimiter is found but left in the stream.
RECURSIVE consume_until_keeps_delimiter(_, _, _)
consume_until_keeps_delimiter(s, i, delimiter) ==
    IF i >= Len(s) THEN [name |-> <<>>, pos |-> i]
    ELSE IF s[i + 1] = delimiter THEN [name |-> <<>>, pos |-> i]
    ELSE LET r == consume_until_keeps_delimiter(s, i + 1, delimiter)
         IN  [name |-> <<s[i + 1]>> \o r.name, pos |-> r.pos]

RECURSIVE consume_until(_, _, _)
consume_until(s, i, delimiter) ==
    IF i >= Len(s) THEN [name |-> <<>>, pos |-> i]
    ELSE IF s[i + 1] = delimiter THEN [name |-> <<>>, pos |-> i + 1]
    ELSE LET r == consume_until(s, i + 1, delimiter)
         IN  [name |-> <<s[i + 1]>> \o r.name, pos |-> r.pos]

\* Mutant: an `if` for the `while`: at most one character is taken.
consume_var_name_once(s, i) ==
    IF i >= Len(s) THEN [name |-> <<>>, pos |-> i]
    ELSE IF ~is_var_char(s[i + 1]) THEN [name |-> <<>>, pos |-> i]
    ELSE [name |-> <<s[i + 1]>>, pos |-> i + 1]

RECURSIVE consume_var_name(_, _)
consume_var_name(s, i) ==
    IF i >= Len(s) THEN [name |-> <<>>, pos |-> i]
    ELSE IF ~is_var_char(s[i + 1]) THEN [name |-> <<>>, pos |-> i]
    ELSE LET r == consume_var_name(s, i + 1)
         IN  [name |-> <<s[i + 1]>> \o r.name, pos |-> r.pos]

\* Mutant: the character after the '$' is taken with next() where the code peeks,
\* so a '$' that starts no reference swallows the character that follows it.
parse_variable_next(s, i) ==
    IF i >= Len(s)
    THEN [some |-> FALSE, name |-> <<>>, braced |-> FALSE, pos |-> i, branch |-> "eof"]
    ELSE IF s[i + 1] = LBRACE
    THEN LET r == consume_until(s, i + 1, RBRACE)
         IN  [some |-> TRUE, name |-> r.name, braced |-> TRUE, pos |-> r.pos,
              branch |-> "braced"]
    ELSE IF is_var_start(s[i + 1])
    THEN LET r == consume_var_name(s, i)
         IN  [some |-> TRUE, name |-> r.name, braced |-> FALSE, pos |-> r.pos,
              branch |-> "bare"]
    ELSE [some |-> FALSE, name |-> <<>>, braced |-> FALSE, pos |-> i + 1, branch |-> "other"]

\* parse_variable with the iterator at i (just after the '$').  branch names the
\* arm of the match that produced the answer.
parse_variable(s, i) ==
    IF i >= Len(s)
    THEN [some |-> FALSE, name |-> <<>>, braced |-> FALSE, pos |-> i, branch |-> "eof"]
    ELSE IF s[i + 1] = LBRACE
    THEN LET r == consume_until(s, i + 1, RBRACE)
         IN  [some |-> TRUE, name |-> r.name, braced |-> TRUE, pos |-> r.pos,
              branch |-> "braced"]
    ELSE IF is_var_start(s[i + 1])
    THEN LET r == consume_var_name(s, i)
         IN  IF r.name # <<>>
             THEN [some |-> TRUE, name |-> r.name, braced |-> FALSE, pos |-> r.pos,
                   branch |-> "bare"]
             ELSE [some |-> FALSE, name |-> <<>>, braced |-> FALSE, pos |-> r.pos,
                   branch |-> "bare_empty"]
    ELSE [some |-> FALSE, name |-> <<>>, braced |-> FALSE, pos |-> i, branch |-> "other"]

(***************************************************************************)
(* Substitution helpers.                                                   *)
(***************************************************************************)
\* Mutant: the allow-list is ignored.
should_substitute_always(var_name, allowed_vars) == TRUE

should_substitute(var_name, allowed_vars) ==
    IF allowed_vars.some THEN var_name \in allowed_vars.val ELSE TRUE

\* env::var(name).unwrap_or_default()
env_var(e, var_name) == IF var_name \in DOMAIN e THEN e[var_name] ELSE <<>>

\* Mutant: a value that is itself a bare reference is expanded once more.
get_substitution_value_expanding(var_name, allowed_vars, e) ==
    IF should_substitute(var_name, allowed_vars)
    THEN LET v == env_var(e, var_name)
         IN  IF v # <<>> /\ Head(v) = DOLLAR THEN Some(env_var(e, Tail(v))) ELSE Some(v)
    ELSE None

get_substitution_value(var_name, allowed_vars, e) ==
    IF should_substitute(var_name, allowed_vars)
    THEN Some(env_var(e, var_name))
    ELSE None

reconstruct_variable(var_name, is_braced) ==
    IF is_braced
    THEN <<DOLLAR, LBRACE>> \o var_name \o <<RBRACE>>
    ELSE <<DOLLAR>> \o var_name

\* One iteration of substitute_variables' loop with i characters consumed
\* (i < Len(s)): what was recognized, where the iterator ends, what is pushed.
subst_step(s, i, allowed_vars, e) ==
    LET ch == s[i + 1] IN
    IF ch = DOLLAR
    THEN LET p == parse_variable(s, i + 1) IN
         IF p.some
         THEN LET v == get_substitution_value(p.name, allowed_vars, e) IN
              [kind |-> IF v.some THEN "value" ELSE "keep",
               name |-> p.name, braced |-> p.braced, branch |-> p.branch,
               start |-> i, end |-> p.pos,
               out |-> IF v.some THEN v.val ELSE reconstruct_variable(p.name, p.braced)]
         ELSE [kind |-> "dollar", name |-> <<>>, braced |-> FALSE, branch |-> p.branch,
               start |-> i, end |-> p.pos, out |-> <<ch>>]
    ELSE [kind |-> "literal", name |-> <<>>, braced |-> FALSE, branch |-> "none",
          start |-> i, end |-> i + 1, out |-> <<ch>>]

RECURSIVE substitute_from(_, _, _, _, _)
substitute_from(s, i, acc, allowed_vars, e) ==
    IF i >= Len(s) THEN acc
    ELSE LET t == subst_step(s, i, allowed_vars, e)
         IN  substitute_from(s, t.end, acc \o t.out, allowed_vars, e)

substitute_variables(s, allowed_vars, e) == substitute_from(s, 0, <<>>, allowed_vars, e)

(***************************************************************************)
(* Extraction.                                                             *)
(***************************************************************************)
\* String's Ord: lexicographic on the bytes (the scalar values, for ASCII).
RECURSIVE str_lt(_, _)
str_lt(a, b) ==
    IF b = <<>> THEN FALSE
    ELSE IF a = <<>> THEN TRUE
    ELSE IF Head(a) # Head(b) THEN Head(a) < Head(b)
    ELSE str_lt(Tail(a), Tail(b))

\* Mutant: sorted descending.
RECURSIVE vec_sort_descending(_)
vec_sort_descending(S) ==
    IF S = {} THEN <<>>
    ELSE LET m == CHOOSE x \in S : \A y \in S \ {x} : str_lt(y, x)
         IN  <<m>> \o vec_sort_descending(S \ {m})

\* vars.into_iter().collect() followed by result.sort()
RECURSIVE vec_sort(_)
vec_sort(S) ==
    IF S = {} THEN <<>>
    ELSE LET m == CHOOSE x \in S : \A y \in S \ {x} : str_lt(x, y)
         IN  <<m>> \o vec_sort(S \ {m})

\* Mutant: the `!var_name.is_empty()` guard is missing.
extract_step_unguarded(s, i, set) ==
    LET ch == s[i + 1] IN
    IF ch = DOLLAR
    THEN LET p == parse_variable(s, i + 1) IN
         [kind |-> IF p.some THEN "ref" ELSE "dollar",
          name |-> p.name, braced |-> p.braced, branch |-> p.branch,
          start |-> i, end |-> p.pos, out |-> <<>>,
          set |-> IF p.some THEN set \cup {p.name} ELSE set]
    ELSE [kind |-> "literal", name |-> <<>>, braced |-> FALSE, branch |-> "none",
          start |-> i, end |-> i + 1, out |-> <<>>, set |-> set]

\* One iteration of extract_variables' loop.
extract_step(s, i, set) ==
    LET ch == s[i + 1] IN
    IF ch = DOLLAR
    THEN LET p == parse_variable(s, i + 1) IN
         [kind |-> IF p.some THEN "ref" ELSE "dollar",
          name |-> p.name, braced |-> p.braced, branch |-> p.branch,
          start |-> i, end |-> p.pos, out |-> <<>>,
          set |-> IF p.some /\ p.name # <<>> THEN set \cup {p.name} ELSE set]
    ELSE [kind |-> "literal", name |-> <<>>, braced |-> FALSE, branch |-> "none",
          start |-> i, end |-> i + 1, out |-> <<>>, set |-> set]

RECURSIVE extract_from(_, _, _)
extract_from(s, i, set) ==
    IF i >= Len(s) THEN set
    ELSE LET t == extract_step(s, i, set) IN extract_from(s, t.end, t.set)

extract_variables(s) == vec_sort(extract_from(s, 0, {}))

\* Vec<String> -> HashSet<String>
Range(q) == {q[k] : k \in DOMAIN q}

Token(t) ==
    [kind |-> t.kind, name |-> t.name, braced |-> t.braced, branch |-> t.branch,
     start |-> t.start, end |-> t.end, out |-> t.out]

(***************************************************************************)
(* The state machine.                                                      *)
(***************************************************************************)
NoCli == [variables |-> FALSE, shell_format |-> None]

\* A test calls substitute_variables(input, allowed) or extract_variables(input).
InitTest ==
    /\ caller = "test"
    /\ cli = NoCli
    /\ input \in Texts
    /\ \/ pc = "subst" /\ allowed \in AllowLists /\ env \in Envs
       \/ pc = "extract" /\ allowed = None /\ env = <<>>
    /\ pos = 0
    /\ result = <<>>
    /\ vars = {}
    /\ tokens = <<>>
    /\ lookups = <<>>
    /\ stdout = <<>>

\* main() after Cli::parse().
InitMain ==
    /\ caller = "main"
    /\ cli \in [variables : BOOLEAN, shell_format : {None} \cup {Some(f) : f \in Formats}]
    /\ pc = "read"
    /\ input = <<>>
    /\ allowed = None
    /\ env \in MainEnvs
    /\ pos = 0
    /\ result = <<>>
    /\ vars = {}
    /\ tokens = <<>>
    /\ lookups = <<>>
    /\ stdout = <<>>

\* ---- substitute_variables' loop ----
\* The effect of one iteration that recognized t.
SubstPush(t) ==
    /\ pos' = t.end
    /\ result' = result \o t.out
    /\ tokens' = Append(tokens, Token(t))
    /\ lookups' = IF t.kind = "value" THEN Append(lookups, t.name) ELSE lookups
    /\ UNCHANGED <<caller, cli, pc, input, allowed, env, vars, stdout>>

\* ch != '$'
SubstLiteral ==
    /\ pc = "subst"
    /\ pos < Len(input)
    /\ subst_step(input, pos, allowed, env).kind = "literal"
    /\ SubstPush(subst_step(input, pos, allowed, env))

\* ch == '$', parse_variable gave None
SubstDollar ==
    /\ pc = "subst"
    /\ pos < Len(input)
    /\ subst_step(input, pos, allowed, env).kind = "dollar"
    /\ SubstPush(subst_step(input, pos, allowed, env))

\* ch == '$', a reference, get_substitution_value gave Some(value)
SubstValue ==
    /\ pc = "subst"
    /\ pos < Len(input)
    /\ subst_step(input, pos, allowed, env).kind = "value"
    /\ SubstPush(subst_step(input, pos, allowed, env))

\* ch == '$', a reference, get_substitution_value gave None
SubstKeep ==
    /\ pc = "subst"
    /\ pos < Len(input)
    /\ subst_step(input, pos, allowed, env).kind = "keep"
    /\ SubstPush(subst_step(input, pos, allowed, env))

SubstReturn ==
    /\ pc = "subst"
    /\ pos >= Len(input)
    /\ pc' = IF caller = "main" THEN "print" ELSE "subst_done"
    /\ UNCHANGED <<caller, cli, input, allowed, env, pos, result, vars, tokens, lookups, stdout>>

\* ---- extract_variables' loop ----
ExtractPush(t) ==
    /\ pos' = t.end
    /\ vars' = t.set
    /\ tokens' = Append(tokens, Token(t))
    /\ UNCHANGED <<caller, cli, pc, input, allowed, env, result, lookups, stdout>>

ExtractLiteral ==
    /\ pc = "extract"
    /\ pos < Len(input)
    /\ extract_step(input, pos, vars).kind = "literal"
    /\ ExtractPush(extract_step(input, pos, vars))

ExtractDollar ==
    /\ pc = "extract"
    /\ pos < Len(input)
    /\ extract_step(input, pos, vars).kind = "dollar"
    /\ ExtractPush(extract_step(input, pos, vars))

ExtractRef ==
    /\ pc = "extract"
    /\ pos < Len(input)
    /\ extract_step(input, pos, vars).kind = "ref"
    /\ ExtractPush(extract_step(input, pos, vars))

ExtractReturn ==
    /\ pc = "extract"
    /\ pos >= Len(input)
    /\ result' = vec_sort(vars)
    /\ pc' = "extract_done"
    /\ UNCHANGED <<caller, cli, input, allowed, env, pos, vars, tokens, lookups, stdout>>

\* ---- main ----
MainReadStdin ==
    /\ pc = "read"
    /\ input' \in Texts
    /\ pc' = "allowed"
    /\ UNCHANGED <<caller, cli, allowed, env, pos, result, vars, tokens, lookups, stdout>>

MainAllowedVars ==
    /\ pc = "allowed"
    /\ allowed' = IF cli.shell_format.some
                  THEN Some(Range(extract_variables(cli.shell_format.val)))
                  ELSE None
    /\ pc' = IF cli.variables THEN "list" ELSE "subst"
    /\ UNCHANGED <<caller, cli, input, env, pos, result, vars, tokens, lookups, stdout>>

RECURSIVE println_all(_)
println_all(q) ==
    IF q = <<>> THEN <<>> ELSE Head(q) \o <<NEWLINE>> \o println_all(Tail(q))

MainListVariables ==
    /\ pc = "list"
    /\ LET listed == IF cli.shell_format.some
                     THEN extract_variables(cli.shell_format.val)
                     ELSE extract_variables(input)
       IN  /\ result' = listed
           /\ stdout' = println_all(listed)
    /\ pc' = "exit"
    /\ UNCHANGED <<caller, cli, input, allowed, env, pos, vars, tokens, lookups>>

MainPrint ==
    /\ pc = "print"
    /\ stdout' = result
    /\ pc' = "exit"
    /\ UNCHANGED <<caller, cli, input, allowed, env, pos, result, vars, tokens, lookups>>

Next ==
    \/ SubstLiteral \/ SubstDollar \/ SubstValue \/ SubstKeep \/ SubstReturn
    \/ ExtractLiteral \/ ExtractDollar \/ ExtractRef \/ ExtractReturn

Spec == InitTest /\ [][Next]_vars_all

NextMain ==
    \/ MainReadStdin \/ MainAllowedVars \/ MainListVariables \/ MainPrint
    \/ SubstLiteral \/ SubstDollar \/ SubstValue \/ SubstKeep \/ SubstReturn

SpecMain == InitMain /\ [][NextMain]_vars_all

(***************************************************************************)
(* Vocabulary of the properties.                                           *)
(***************************************************************************)
NumTokens == Len(tokens)

\* The run is one of substitute_variables (not of extract_variables).
SubstRun == pc \notin {"extract", "extract_done"}

\* A token that is a recognized reference.
IsRef(t) == t.kind \in {"value", "keep", "ref"}

\* The characters of the input a token consumed.
Consumed(t) == SubSeq(input, t.start + 1, t.end)

\* The grammar's character classes: ASCII letter or '_'; plus ASCII digit.
NameStart(ch) == (65 <= ch /\ ch <= 90) \/ (97 <= ch /\ ch <= 122) \/ ch = 95

NameChar(ch) == NameStart(ch) \/ (48 <= ch /\ ch <= 57)

\* The environment's value of a name, empty when unbound.
EnvValue(n) == IF n \in DOMAIN env THEN env[n] ELSE <<>>

\* Token k stands at a '$' of the input.
AtDollar(k) == input[tokens[k].start + 1] = DOLLAR

(***************************************************************************)
(* C1.  Each recognized reference (name, braced) is handled thus: when the *)
(* allow-list is absent or contains the name, it is replaced by the        *)
(* environment's value of the name (empty when unbound); otherwise it is   *)
(* emitted as $name (bare) or ${name} (braced), which is its original      *)
(* spelling, so that it appears unchanged in the output.                   *)
(***************************************************************************)
C1_ReferenceHandling ==
    \A k \in 1..NumTokens :
        LET t == tokens[k] IN
        (SubstRun /\ IsRef(t)) =>
            IF ~allowed.some \/ t.name \in allowed.val
            THEN t.kind = "value" /\ t.out = EnvValue(t.name)
            ELSE /\ t.kind = "keep"
                 /\ t.out = IF t.braced
                            THEN <<DOLLAR, LBRACE>> \o t.name \o <<RBRACE>>
                            ELSE <<DOLLAR>> \o t.name
                 /\ t.out = Consumed(t)

(***************************************************************************)
(* C2.  With an empty allow-list substitute_variables returns its input    *)
(* unchanged.                                                              *)
(***************************************************************************)
C2_EmptyAllowListIdentity ==
    (pc = "subst_done" /\ allowed = Some({})) => result = input

(***************************************************************************)
(* C3.  extract_variables returns exactly the non-empty names of the       *)
(* references the scanner recognizes in the text, each once, never the     *)
(* empty name, sorted ascending by codepoint; a '$' that starts no         *)
(* reference adds nothing.                                                 *)
(***************************************************************************)
\* a precedes b in codepoint order: a proper prefix of b, or smaller at the
\* first place they differ.
CodepointLess(a, b) ==
    \E k \in 0..Len(a) :
        /\ k <= Len(b)
        /\ SubSeq(a, 1, k) = SubSeq(b, 1, k)
        /\ \/ k = Len(a) /\ k < Len(b)
           \/ k < Len(a) /\ k < Len(b) /\ a[k + 1] < b[k + 1]

C3_ExtractSortedDistinct ==
    pc = "extract_done" =>
        /\ Range(result) =
               {tokens[k].name : k \in {j \in 1..NumTokens :
                                          IsRef(tokens[j]) /\ tokens[j].name # <<>>}}
        /\ <<>> \notin Range(result)
        /\ \A i, j \in 1..Len(result) : i < j => CodepointLess(result[i], result[j])

\* "$a$B" lists B before a.
C3_Witness ==
    /\ pc = "extract_done"
    /\ input = <<DOLLAR, 97, DOLLAR, 66>>
    /\ result = <<NameB, Namea>>

(***************************************************************************)
(* C4.  A '$' followed by end of input, or by a character that is neither  *)
(* '{' nor a name-start character, is no reference: nothing after it is    *)
(* consumed, substitute_variables emits exactly one '$', and the scan      *)
(* resumes at the very next character.                                     *)
(***************************************************************************)
NoReferenceFollows(k) ==
    LET a == tokens[k].start IN
    /\ AtDollar(k)
    /\ \/ a + 1 = Len(input)
       \/ a + 1 < Len(input) /\ input[a + 2] # LBRACE /\ ~NameStart(input[a + 2])

C4_LoneDollarLiteral ==
    \A k \in 1..NumTokens :
        NoReferenceFollows(k) =>
            LET t == tokens[k] IN
            /\ t.kind = "dollar"
            /\ t.end = t.start + 1
            /\ SubstRun => t.out = <<DOLLAR>>
            /\ k < NumTokens => tokens[k + 1].start = t.start + 1
            /\ k = NumTokens => pos = t.start + 1

\* "$$B" under the open policy: a literal '$', then the reference B.
C4_Witness ==
    /\ pc = "subst_done"
    /\ ~allowed.some
    /\ input = <<DOLLAR, DOLLAR, 66>>
    /\ tokens[1].kind = "dollar"
    /\ tokens[2].kind = "value" /\ tokens[2].name = NameB /\ tokens[2].start = 1
    /\ result = <<DOLLAR>> \o EnvValue(NameB)

(***************************************************************************)
(* C5.  A '$' immediately followed by '{' always yields a braced reference *)
(* whose name is the characters between that '{' and the first following   *)
(* '}', whatever they are; the '}' is consumed and the scan resumes after  *)
(* it.  With no '}' the name is all the remaining characters and the       *)
(* stream is consumed to its end.                                          *)
(***************************************************************************)
C5_BracedName ==
    \A k \in 1..NumTokens :
        LET t == tokens[k]
            a == t.start
            closing == {j \in (a + 3)..Len(input) : input[j] = RBRACE}
        IN  (AtDollar(k) /\ a + 2 <= Len(input) /\ input[a + 2] = LBRACE) =>
                /\ IsRef(t)
                /\ t.braced
                /\ IF closing = {}
                   THEN /\ t.name = SubSeq(input, a + 3, Len(input))
                        /\ t.end = Len(input)
                        /\ k = NumTokens
                   ELSE LET j == CHOOSE x \in closing : \A y \in closing : x <= y
                        IN  /\ t.name = SubSeq(input, a + 3, j - 1)
                            /\ t.end = j
                            /\ k < NumTokens => tokens[k + 1].start = j
                /\ k = NumTokens => pos = t.end

\* "${{B": unterminated, the name is "{B" and the input is used up.
C5_Witness ==
    /\ pc = "subst_done"
    /\ input = <<DOLLAR, LBRACE, LBRACE, 66>>
    /\ NumTokens = 1
    /\ tokens[1].braced
    /\ tokens[1].name = <<LBRACE, 66>>
    /\ pos = Len(input)

(***************************************************************************)
(* C6.  A bare reference's name is the maximal run of name characters      *)
(* after the '$', starting at a name-start character: it ends exactly      *)
(* before the first non-name character or at the end of input, and that    *)
(* terminating character is not consumed.                                  *)
(***************************************************************************)
\* Token k stands at a '$' followed by a name-start character.
BareFollows(k) ==
    LET a == tokens[k].start IN
    AtDollar(k) /\ a + 2 <= Len(input) /\ NameStart(input[a + 2])

\* The reference at token k is exactly the maximal run, and the iterator stops
\* before its terminator.
BareNameIsMaximalRun(k) ==
    LET t == tokens[k] IN
    /\ IsRef(t)
    /\ ~t.braced
    /\ t.end >= t.start + 2
    /\ t.name = SubSeq(input, t.start + 2, t.end)
    /\ \A j \in (t.start + 2)..t.end : NameChar(input[j])
    /\ t.end = Len(input) \/ ~NameChar(input[t.end + 1])
    /\ k < NumTokens => tokens[k + 1].start = t.end
    /\ k = NumTokens => pos = t.end

\* As claimed: the terminating character is emitted as ordinary text.
C6_TerminatorEmittedAsText ==
    \A k \in 1..NumTokens :
        BareFollows(k) =>
            /\ BareNameIsMaximalRun(k)
            /\ (SubstRun /\ k < NumTokens) =>
                   /\ tokens[k + 1].kind \in {"literal", "dollar"}
                   /\ tokens[k + 1].out = <<input[tokens[k].end + 1]>>

\* C6 as amended: the terminating character is not consumed by the reference
\* and is the next character the top-level scan processes; it is emitted as
\* ordinary text unless it is a '$', which is scanned as any other '$'.
C6_BareNameMaximal ==
    \A k \in 1..NumTokens :
        BareFollows(k) =>
            /\ BareNameIsMaximalRun(k)
            /\ (SubstRun /\ k < NumTokens /\ input[tokens[k].end + 1] # DOLLAR) =>
                   /\ tokens[k + 1].kind = "literal"
                   /\ tokens[k + 1].out = <<input[tokens[k].end + 1]>>

\* "$B1}" under the open policy: the name is "B1", the '}' is emitted.
C6_Witness ==
    /\ pc = "subst_done"
    /\ ~allowed.some
    /\ input = <<DOLLAR, 66, 49, RBRACE>>
    /\ tokens[1].name = <<66, 49>>
    /\ tokens[2].out = <<RBRACE>>
    /\ result = <<RBRACE>>

(***************************************************************************)
(* C7.  Substitution is one left-to-right pass without recursive           *)
(* expansion: the tokens tile the input in order, the output is the        *)
(* concatenation of their outputs, a substituted reference's output is the *)
(* environment's value verbatim, and the environment is asked only for the *)
(* names of the substituted references of the input, in order.             *)
(***************************************************************************)
RECURSIVE OutputsOf(_)
OutputsOf(q) == IF q = <<>> THEN <<>> ELSE Head(q).out \o OutputsOf(Tail(q))

RECURSIVE SubstitutedNames(_)
SubstitutedNames(q) ==
    IF q = <<>> THEN <<>>
    ELSE (IF Head(q).kind = "value" THEN <<Head(q).name>> ELSE <<>>)
             \o SubstitutedNames(Tail(q))

C7_SinglePassNoRescan ==
    SubstRun =>
        /\ \A k \in 1..NumTokens :
               /\ tokens[k].start = IF k = 1 THEN 0 ELSE tokens[k - 1].end
               /\ tokens[k].start < tokens[k].end
               /\ tokens[k].end <= Len(input)
               /\ tokens[k].kind = "value" => tokens[k].out = EnvValue(tokens[k].name)
        /\ pos = IF NumTokens = 0 THEN 0 ELSE tokens[NumTokens].end
        /\ result = OutputsOf(tokens)
        /\ lookups = SubstitutedNames(tokens)
        /\ pc = "subst_done" => pos = Len(input)

\* "$B" with B bound to "$a" and a bound to "1": the output is "$a".
C7_Witness ==
    /\ pc = "subst_done"
    /\ input = <<DOLLAR, 66>>
    /\ ~allowed.some
    /\ DOMAIN env = {NameB, Namea}
    /\ env[NameB] = <<DOLLAR, 97>>
    /\ result = <<DOLLAR, 97>>
    /\ lookups = <<NameB>>

(***************************************************************************)
(* C8.  A reference has an empty name only when it is the braced form      *)
(* written exactly "${}"; a bare reference always has a non-empty name, so *)
(* the empty-name arm of parse_variable's bare path is never taken.        *)
(***************************************************************************)
BareNeverEmpty ==
    \A k \in 1..NumTokens :
        /\ tokens[k].branch # "bare_empty"
        /\ (IsRef(tokens[k]) /\ ~tokens[k].braced) => tokens[k].name # <<>>

\* As claimed.
C8_EmptyNameOnlyEmptyBraces ==
    /\ BareNeverEmpty
    /\ \A k \in 1..NumTokens :
           (IsRef(tokens[k]) /\ tokens[k].name = <<>>) =>
               /\ tokens[k].braced
               /\ Consumed(tokens[k]) = <<DOLLAR, LBRACE, RBRACE>>

\* C8 as amended: an empty name comes only from a braced reference with
\* nothing between its '{' and the first '}' or the end of input, written
\* "${}", or "${" as the last two characters of the input.
C8_EmptyNameOnlyBraced ==
    /\ BareNeverEmpty
    /\ \A k \in 1..NumTokens :
           (IsRef(tokens[k]) /\ tokens[k].name = <<>>) =>
               /\ tokens[k].braced
               /\ \/ Consumed(tokens[k]) = <<DOLLAR, LBRACE, RBRACE>>
                  \/ /\ Consumed(tokens[k]) = <<DOLLAR, LBRACE>>
                     /\ tokens[k].end = Len(input)

\* "1${": the input ends in "${", a braced reference with the empty name.
C8_Witness ==
    /\ input = <<49, DOLLAR, LBRACE>>
    /\ NumTokens = 2
    /\ IsRef(tokens[2])
    /\ tokens[2].braced
    /\ tokens[2].name = <<>>
    /\ pos = Len(input)

(***************************************************************************)
(* C9.  Under a closed policy the output depends on the environment only   *)
(* through the names in the allow-list: two environments that agree on     *)
(* every allowed name give the same output.                                *)
(***************************************************************************)
AgreeOn(e1, e2, S) ==
    \A n \in S :
        /\ n \in DOMAIN e1 <=> n \in DOMAIN e2
        /\ n \in DOMAIN e1 => e1[n] = e2[n]

C9_ClosedPolicyNonInterference ==
    (pc = "subst_done" /\ allowed.some) =>
        \A e2 \in Envs :
            AgreeOn(env, e2, allowed.val) =>
                substitute_variables(input, allowed, e2) = result

\* "$B$a" with nothing allowed: both references are kept, whatever B and a
\* are bound to.
C9_Witness ==
    /\ pc = "subst_done"
    /\ allowed = Some({})
    /\ input = <<DOLLAR, 66, DOLLAR, 97>>
    /\ result = input
    /\ \E e2 \in Envs : EnvValue(NameB) # env_var(e2, NameB) /\ AgreeOn(env, e2, allowed.val)

(***************************************************************************)
(* C10.  An allow-list built from a format string never holds the empty    *)
(* name: with any format string a "${}" of the input is emitted as "${}",  *)
(* and with no format string it is replaced by the empty string.           *)
(***************************************************************************)
\* Token k is a "${}" of the input.
EmptyBraces(k) ==
    /\ tokens[k].start + 3 <= Len(input)
    /\ SubSeq(input, tokens[k].start + 1, tokens[k].start + 3) = <<DOLLAR, LBRACE, RBRACE>>

C10_EmptyBracesUnderFormat ==
    /\ (caller = "main" /\ allowed.some) => <<>> \notin allowed.val
    /\ (caller = "main" /\ pc \in {"subst", "print", "exit"} /\ ~cli.variables) =>
           /\ allowed.some <=> cli.shell_format.some
           /\ \A k \in 1..NumTokens :
                  EmptyBraces(k) =>
                      /\ tokens[k].end = tokens[k].start + 3
                      /\ IF cli.shell_format.some
                         THEN tokens[k].kind = "keep"
                              /\ tokens[k].out = <<DOLLAR, LBRACE, RBRACE>>
                         ELSE tokens[k].kind = "value" /\ tokens[k].out = <<>>
    /\ (caller = "main" /\ pc = "exit" /\ ~cli.variables /\ input = <<DOLLAR, LBRACE, RBRACE>>) =>
           stdout = IF cli.shell_format.some THEN input ELSE <<>>

\* The format is itself "${}", and the input's "${}" is printed as it stands.
C10_Witness ==
    /\ caller = "main"
    /\ pc = "exit"
    /\ cli.shell_format = Some(<<DOLLAR, LBRACE, RBRACE>>)
    /\ allowed = Some({})
    /\ input = <<49, DOLLAR, LBRACE, RBRACE>>
    /\ stdout = input

====
